---------------------------- MODULE Spec2Model ----------------------------
(***************************************************************************)
(* Model of the AI-acquisition dashboard engine:                           *)
(*   - SlackMonitor.get_ai_acq_messages  (src/slack_monitor.py)            *)
(*   - SlackMonitor.get_top_performers   (src/slack_monitor.py)            *)
(*   - get_thread_stats, load_all_messages, the refresh button and the     *)
(*     page script                        (src/dashboard.py)               *)
(* A Slack message is a record whose DOMAIN is the set of keys the         *)
(* payload carries, so  'user' in msg  is  "user" \in DOMAIN msg.          *)
(* A message text is a sequence of tokens; substring search for the        *)
(* mention token is membership of the token in the sequence.               *)
(***************************************************************************)
EXTENDS Integers, Sequences, FiniteSets, TLC

\* ------------------------------------------------------------- bounds
\* Longest channel history the API holds.
MaxHist == 3
\* Largest limit= argument passed to get_ai_acq_messages.
MaxLimit == 3
\* Page-size cap of conversations_history.  The source writes 200
\* (slack_monitor.py:41); it is scaled down so that the cap binds within
\* MaxLimit.
BatchMax == 2
\* Most input messages handed to get_thread_stats / get_top_performers.
MaxThreads == 2
\* Most replies (after the parent entry) a thread's reply list holds.
MaxReplies == 2
\* The clock stops at MaxClock seconds and advances TickSeconds at a time.
MaxClock == 600
TickSeconds == 150
\* The channel goes through snapshots 0 (empty) .. MaxVersion; snapshot v
\* holds v tagged messages.
MaxVersion == 2
\* Most runs of the page script.
MaxRuns == 3
\* Largest n passed to get_trailing_quarters (more than one fiscal year).
MaxN == 5

\* ------------------------------------------------------------- ingestion state
VARIABLES
    H,          \* environment: the channel history the API serves, API order
    delivered,  \* environment: how many messages of H the API has handed out
    limit,      \* get_ai_acq_messages: the limit argument
    total,      \* get_ai_acq_messages: messages scanned so far
    messages,   \* get_ai_acq_messages: matched messages accumulated so far
    cursor,     \* get_ai_acq_messages: continuation cursor
    ipc,        \* get_ai_acq_messages: "idle" | "loop" | "returned"
    result,     \* get_ai_acq_messages: the returned list
    errored,    \* history: a conversations_history call raised SlackApiError
    early       \* history: a page ended the paging before H was exhausted

ingestVars == <<H, delivered, limit, total, messages, cursor, ipc, result,
                errored, early>>

\* ------------------------------------------------------------- thread state
VARIABLES
    tpc,        \* "idle" | "stats" | "scores" | "statsDone" | "scoresDone"
    nmsgs,      \* len(messages) of the running call
    idx,        \* position of the for-loop over messages, 1..nmsgs+1
    stats,      \* get_thread_stats: the stats dict
    scores,     \* get_top_performers: the scores dict, in insertion order
    top,        \* get_top_performers: the returned (sorted) mapping
    attempts,   \* history: conversations_replies calls issued
    failed,     \* history: conversations_replies calls that raised
    afterFail,  \* history: a thread was fetched after another one had failed
    gReplied,   \* history (stats): fetched threads with at least one reply
    gResolved,  \* history: fetched threads with a marked reply
    gMarkers,   \* history: marked replies seen in fetched threads
    gWrote,     \* history (stats): per author, replies in fetched threads
    gMarked,    \* history (scores): per author, marked replies in fetched threads
    gFirst,     \* history (scores): per author, rank of the first marked reply
                \* in traversal order (0: none)
    gLat        \* history (stats): per fetched thread with a reply, in order,
                \* whether its first reply carries a ts and by how many
                \* seconds that ts lies after the parent's

threadVars == <<tpc, nmsgs, idx, stats, scores, top, attempts, failed, afterFail,
                gReplied,
                gResolved, gMarkers, gWrote, gMarked, gFirst, gLat>>

\* ------------------------------------------------------------- cache state
VARIABLES
    now,        \* environment: the clock, in seconds
    upstream,   \* environment: the channel's current snapshot
    cache,      \* st.cache_data: [msgs: entry, stats: args -> entry]
    lastTop,    \* history: per args, when get_top_performers last ran since
                \* the last clear() (-1: not yet)
    lastRun,    \* history: what the last run of the page script did
    runs        \* history: runs of the page script so far

cacheVars == <<now, upstream, cache, lastTop, lastRun, runs>>

\* ------------------------------------------------------------- fiscal calendar state
VARIABLES
    fpc,        \* "idle" | "quarter" | "loop" | "returned"
    date,       \* the date argument, or now for get_trailing_quarters
    fiscal,     \* get_fiscal_quarter: the returned (fiscal_year, quarter, label)
    nq,         \* get_trailing_quarters: the argument n
    done,       \* get_trailing_quarters: iterations of range(n) completed
    fy,         \* get_trailing_quarters: the loop variable fy
    qtr,        \* get_trailing_quarters: the loop variable q
    quarters    \* get_trailing_quarters: the list built so far

fiscalVars == <<fpc, date, fiscal, nq, done, fy, qtr, quarters>>

vars == <<ingestVars, threadVars, cacheVars, fiscalVars>>

\* ------------------------------------------------------------- helpers
Min(a, b) == IF a < b THEN a ELSE b

\* self.ai_acq_group_id, and the mention token f"<!subteam^{...}" built from it.
ai_acq_group_id == "S06TG9U38ET"
search_pattern == "<!subteam^S06TG9U38ET"

\* The workspace's user directory as users_info answers it; a user that is
\* not in it makes users_info raise.
Directory == [U1 |-> "Alice", U2 |-> "Bob"]

\* SlackMonitor._get_user_name: the display name, 'Unknown' on any failure.
GetUserName(user_id) ==
    IF user_id \in DOMAIN Directory THEN Directory[user_id] ELSE "Unknown"

\* search_pattern in msg['text']
Contains(text, pattern) == \E i \in 1..Len(text) : text[i] = pattern

\* 'user' in msg and 'text' in msg and search_pattern in msg['text']
IsMatch(msg) ==
    /\ "user" \in DOMAIN msg
    /\ "text" \in DOMAIN msg
    /\ Contains(msg.text, search_pattern)

\* The record appended for a matching message.
Shape(msg) ==
    [timestamp |-> msg.ts, user_id |-> msg.user,
     user_name |-> GetUserName(msg.user),
     message_text |-> msg.text, ts |-> msg.ts]

\* The for-loop over one page: the matches of the page, in page order.
RECURSIVE ScanPage(_)
ScanPage(page) ==
    IF page = <<>> THEN <<>>
    ELSE (IF IsMatch(Head(page)) THEN <<Shape(Head(page))>> ELSE <<>>)
         \o ScanPage(Tail(page))

\* A page request that forgets what was already scanned.
PageLimitNoTotal(lim, tot) == Min(BatchMax, lim)

\* limit=min(200, limit - total)
PageLimit(lim, tot) == Min(BatchMax, lim - tot)

\* not cursor
Falsy(c) == c = "None" \/ c = ""

\* ------------------------------------------------------------- cache helpers
\* Arguments get_thread_stats is called with: a non-empty message list.
Snapshots == 0..MaxVersion
StatsArgs == 1..MaxVersion

NoEntry == [present |-> FALSE, value |-> 0, at |-> 0, err |-> FALSE]

EmptyCache == [msgs |-> NoEntry, stats |-> [k \in StatsArgs |-> NoEntry]]

NoRun ==
    [trigger |-> "none", at |-> 0, all |-> 0, filtered |-> 0,
     loadInvoked |-> FALSE, fetchFailed |-> FALSE,
     statsCalled |-> FALSE, statsInvoked |-> FALSE,
     statsValue |-> 0, topCalled |-> FALSE,
     apiHistory |-> 0, apiReplies |-> 0]

CacheIdle ==
    /\ now = 0
    /\ upstream = 0
    /\ cache = EmptyCache
    /\ lastTop = [k \in StatsArgs |-> -1]
    /\ lastRun = NoRun
    /\ runs = 0

\* ------------------------------------------------------------- thread helpers
Names == {"Alice", "Bob", "Unknown"}

ZeroTally == [a \in Names |-> 0]

\* The stats dict of lines 156-163 for len(messages) = len.
NewStats(len) ==
    [threads_with_replies |-> 0, threads_with_resolution |-> 0,
     response_times |-> <<>>, responders |-> {},
     active_responders |-> ZeroTally, total_threads |-> len]

ThreadsIdle ==
    /\ tpc = "idle"
    /\ nmsgs = 0
    /\ idx = 1
    /\ stats = NewStats(0)
    /\ scores = <<>>
    /\ top = <<>>
    /\ attempts = 0
    /\ failed = 0
    /\ afterFail = FALSE
    /\ gReplied = 0
    /\ gResolved = 0
    /\ gMarkers = 0
    /\ gWrote = ZeroTally
    /\ gMarked = ZeroTally
    /\ gFirst = ZeroTally
    /\ gLat = <<>>

\* ------------------------------------------------------------- fiscal helpers
NoDate == [year |-> 0, month |-> 0, day |-> 0]

FiscalIdle ==
    /\ fpc = "idle"
    /\ date = NoDate
    /\ fiscal = <<>>
    /\ nq = 0
    /\ done = 0
    /\ fy = 0
    /\ qtr = 0
    /\ quarters = <<>>

\* ------------------------------------------------------------- inputs
\* Payloads of conversations_history, before the ts is attached.
MsgKinds ==
    { [user |-> "U1", text |-> <<search_pattern, "help">>],
      [user |-> "U3", text |-> <<"hi", search_pattern>>],
      [user |-> "U1", text |-> <<"@ai_acq", "help">>],
      [text |-> <<search_pattern, "digest">>],
      [user |-> "U2"] }

WithTs(kind, i) ==
    IF "user" \in DOMAIN kind /\ "text" \in DOMAIN kind
        THEN [user |-> kind.user, text |-> kind.text, ts |-> i]
    ELSE IF "text" \in DOMAIN kind
        THEN [text |-> kind.text, ts |-> i]
    ELSE [user |-> kind.user, ts |-> i]

Histories ==
    UNION { { [i \in 1..n |-> WithTs(f[i], i)] : f \in [1..n -> MsgKinds] }
            : n \in 0..MaxHist }

\* next_cursor as the response carries it: absent, empty, or a token.
Cursors == {"None", "", "c1", "c2"}

\* ------------------------------------------------------------- ingestion
IngestIdle ==
    /\ H = <<>>
    /\ delivered = 0
    /\ limit = 0
    /\ total = 0
    /\ messages = <<>>
    /\ cursor = "None"
    /\ ipc = "idle"
    /\ result = <<>>
    /\ errored = FALSE
    /\ early = FALSE

InitIngest ==
    /\ ThreadsIdle
    /\ CacheIdle
    /\ FiscalIdle
    /\ H \in Histories
    /\ delivered = 0
    /\ limit = 0
    /\ total = 0
    /\ messages = <<>>
    /\ cursor = "None"
    /\ ipc = "idle"
    /\ result = <<>>
    /\ errored = FALSE
    /\ early = FALSE

\* get_ai_acq_messages(limit): lines 34-35.
CallIngest ==
    /\ ipc = "idle"
    /\ \E lim \in 0..MaxLimit : limit' = lim
    /\ total' = 0
    /\ messages' = <<>>
    /\ cursor' = "None"
    /\ ipc' = "loop"
    /\ UNCHANGED <<H, delivered, result, errored, early, threadVars, cacheVars, fiscalVars>>

\* while total < limit fails: return messages (lines 38, 59).
LoopExit ==
    /\ ipc = "loop"
    /\ ~(total < limit)
    /\ result' = messages
    /\ ipc' = "returned"
    /\ UNCHANGED <<H, delivered, limit, total, messages, cursor, errored, early,
                   threadVars, cacheVars, fiscalVars>>

\* One iteration of the loop, lines 40-58: the API answers the request with
\* the next k messages of H (any k up to the requested size), any has_more
\* and any next_cursor.
FetchPage ==
    /\ ipc = "loop"
    /\ total < limit
    /\ \E k \in 0..Min(PageLimit(limit, total), Len(H) - delivered),
          has_more \in BOOLEAN, next \in Cursors :
         LET page == SubSeq(H, delivered + 1, delivered + k)
             stop == ~has_more \/ Falsy(next)
         IN  /\ delivered' = delivered + k
             /\ total' = total + Len(page)
             /\ messages' = messages \o ScanPage(page)
             /\ cursor' = next
             /\ early' = (early \/ (stop /\ delivered + k < Len(H)))
             /\ IF stop
                   THEN /\ ipc' = "returned"
                        /\ result' = messages'
                   ELSE /\ ipc' = "loop"
                        /\ result' = result
    /\ UNCHANGED <<H, limit, errored, threadVars, cacheVars, fiscalVars>>

\* conversations_history raises SlackApiError: lines 60-62.
FetchError ==
    /\ ipc = "loop"
    /\ total < limit
    /\ errored' = TRUE
    /\ result' = <<>>
    /\ ipc' = "returned"
    /\ UNCHANGED <<H, delivered, limit, total, messages, cursor, early, threadVars, cacheVars, fiscalVars>>

NextIngest == CallIngest \/ LoopExit \/ FetchPage \/ FetchError


SpecIngest == InitIngest /\ [][NextIngest]_vars

\* The loop is never suspended: whenever a step is possible one is taken.
FairIngest == SpecIngest /\ WF_vars(NextIngest)


\* ------------------------------------------------------------- ingestion claims
\* What the specification asks of a message, stated on the payload.
Tagged(m) ==
    /\ "user" \in DOMAIN m
    /\ "text" \in DOMAIN m
    /\ \E i \in 1..Len(m.text) : m.text[i] = search_pattern

\* The tagged messages among the first n of H, in API order.
TaggedIn(n) == SelectSeq(SubSeq(H, 1, n), Tagged)

\* The returned list names exactly the messages of s, in order.
Returns(s) ==
    /\ Len(result) = Len(s)
    /\ \A i \in 1..Len(s) :
         /\ result[i].ts = s[i].ts
         /\ result[i].user_id = s[i].user
         /\ result[i].message_text = s[i].text

\* C1: message ingestion terminates for every limit and every sequence of
\* page responses (pages of 0..requested messages, any has_more, any
\* cursor): every call eventually returns.
C1_IngestTerminates == <>(ipc = "returned")

\* C2: when a page request fails after some pages were fetched, the call
\* returns exactly the matches accumulated from the pages already fetched.
C2_PartialOnError ==
    (ipc = "returned" /\ errored) => Returns(TaggedIn(delivered))

\* C3: with no API error and has_more and a cursor on every page but the
\* last, the call returns, in API order, exactly the tagged messages among
\* the first min(limit, |H|) messages of H; it never scans more than limit
\* messages.
C3_IngestExact ==
    /\ (ipc # "idle") => (total <= limit /\ Len(messages) <= total)
    /\ (ipc = "returned" /\ ~errored /\ ~early)
          => Returns(TaggedIn(Min(limit, Len(H))))

\* C3 witness: a call over several pages that stopped at the limit before
\* the end of H, having scanned both matching and non-matching messages.
C3_Witness ==
    /\ ipc = "returned" /\ ~errored /\ ~early
    /\ ~Falsy(cursor)
    /\ total = limit /\ limit < Len(H)
    /\ Len(result) >= 1 /\ Len(result) < limit

\* ------------------------------------------------------------- thread replies
\* msg['ts'] of the j-th input message, in seconds (whole minutes, so that
\* the division by 60 of line 181 is exact).
ParentTs(j) == 600 * j

\* any(r.get('name') == 'white_check_mark' for r in reply.get('reactions', []))
HasCheck(reply) ==
    LET reactions == IF "reactions" \in DOMAIN reply THEN reply.reactions
                     ELSE <<>>
    IN  \E i \in 1..Len(reactions) : reactions[i].name = "white_check_mark"

\* The tally without the set: only the per-responder count is kept.
AddResponderCountOnly(st, responder) ==
    [st EXCEPT !.active_responders[responder] = @ + 1]

\* stats['responders'].add(responder); stats['active_responders'][responder] += 1
AddResponder(st, responder) ==
    [st EXCEPT !.responders = @ \cup {responder},
               !.active_responders[responder] = @ + 1]

\* Lines 186-195 without the break: every marked reply counts the thread.
RECURSIVE TallyRepliesNoBreak(_, _)
TallyRepliesNoBreak(st, replies) ==
    IF replies = <<>> THEN st
    ELSE LET reply == Head(replies)
             st1 == IF "user" \in DOMAIN reply
                       THEN AddResponder(st, GetUserName(reply.user))
                       ELSE st
             st2 == IF HasCheck(reply)
                       THEN [st1 EXCEPT !.threads_with_resolution = @ + 1]
                       ELSE st1
         IN  TallyRepliesNoBreak(st2, Tail(replies))

\* for reply in thread_replies: lines 186-196, the break included.
RECURSIVE TallyReplies(_, _)
TallyReplies(st, replies) ==
    IF replies = <<>> THEN st
    ELSE LET reply == Head(replies)
             st1 == IF "user" \in DOMAIN reply
                       THEN AddResponder(st, GetUserName(reply.user))
                       ELSE st
         IN  IF HasCheck(reply)
                THEN [st1 EXCEPT !.threads_with_resolution = @ + 1]
                ELSE TallyReplies(st1, Tail(replies))

\* The loop body with  response_time_minutes >= 0  as the test of line 182.
StatsIterNonNegative(st, parent_ts, replies) ==
    LET thread_replies == IF Len(replies) > 1 THEN Tail(replies) ELSE <<>>
    IN  IF thread_replies = <<>> THEN st
        ELSE LET first == thread_replies[1]
                 first_reply_ts == IF "ts" \in DOMAIN first THEN first.ts
                                   ELSE parent_ts
                 response_time_minutes == (first_reply_ts - parent_ts) \div 60
                 st1 == [st EXCEPT
                           !.threads_with_replies = @ + 1,
                           !.response_times =
                               IF response_time_minutes >= 0
                                  THEN Append(@, response_time_minutes)
                                  ELSE @]
             IN  TallyReplies(st1, thread_replies)

\* The body of the loop over messages for one fetched thread: lines 172-196.
StatsIter(st, parent_ts, replies) ==
    LET thread_replies == IF Len(replies) > 1 THEN Tail(replies) ELSE <<>>
    IN  IF thread_replies = <<>> THEN st
        ELSE LET first == thread_replies[1]
                 first_reply_ts == IF "ts" \in DOMAIN first THEN first.ts
                                   ELSE parent_ts
                 response_time_minutes == (first_reply_ts - parent_ts) \div 60
                 st1 == [st EXCEPT
                           !.threads_with_replies = @ + 1,
                           !.response_times =
                               IF response_time_minutes > 0
                                  THEN Append(@, response_time_minutes)
                                  ELSE @]
             IN  TallyReplies(st1, thread_replies)

\* scores[name] = scores.get(name, 0) + 1 on an insertion-ordered dict.
Bump(sc, name) ==
    IF \E i \in 1..Len(sc) : sc[i].name = name
       THEN [i \in 1..Len(sc) |->
               IF sc[i].name = name THEN [sc[i] EXCEPT !.score = @ + 1]
               ELSE sc[i]]
       ELSE Append(sc, [name |-> name, score |-> 1])

\* Lines 96-105 with a break after the first marked reply of a thread.
RECURSIVE ScoreRepliesFirstOnly(_, _)
ScoreRepliesFirstOnly(sc, replies) ==
    IF replies = <<>> THEN sc
    ELSE LET reply == Head(replies)
         IN  IF "user" \notin DOMAIN reply
                THEN ScoreRepliesFirstOnly(sc, Tail(replies))
             ELSE IF HasCheck(reply)
                THEN Bump(sc, GetUserName(reply.user))
             ELSE ScoreRepliesFirstOnly(sc, Tail(replies))

\* for reply in replies[1:]: lines 96-105 (the argument is replies[1:]).
RECURSIVE ScoreReplies(_, _)
ScoreReplies(sc, replies) ==
    IF replies = <<>> THEN sc
    ELSE LET reply == Head(replies)
         IN  IF "user" \notin DOMAIN reply
                THEN ScoreReplies(sc, Tail(replies))
             ELSE IF HasCheck(reply)
                THEN ScoreReplies(Bump(sc, GetUserName(reply.user)),
                                  Tail(replies))
             ELSE ScoreReplies(sc, Tail(replies))

\* replies[1:]
Rest(replies) == IF replies = <<>> THEN <<>> ELSE Tail(replies)

\* Insertion that puts an item before the items it ties with.
RECURSIVE InsertBeforeTies(_, _)
InsertBeforeTies(sorted, item) ==
    IF sorted = <<>> THEN <<item>>
    ELSE IF Head(sorted).score <= item.score THEN <<item>> \o sorted
    ELSE <<Head(sorted)>> \o InsertBeforeTies(Tail(sorted), item)

\* Stable insertion into a list sorted by score descending: the item goes
\* after every item whose score is at least its own.
RECURSIVE InsertDesc(_, _)
InsertDesc(sorted, item) ==
    IF sorted = <<>> THEN <<item>>
    ELSE IF Head(sorted).score < item.score THEN <<item>> \o sorted
    ELSE <<Head(sorted)>> \o InsertDesc(Tail(sorted), item)

\* dict(sorted(scores.items(), key=lambda x: x[1], reverse=True)): line 108.
\* sorted is stable, also with reverse=True.
RECURSIVE SortDesc(_)
SortDesc(items) ==
    IF items = <<>> THEN <<>>
    ELSE InsertDesc(SortDesc(SubSeq(items, 1, Len(items) - 1)),
                    items[Len(items)])

\* ------------------------------------------------------------- thread inputs
CheckReactions == <<[name |-> "eyes"], [name |-> "white_check_mark"]>>

\* One entry of a conversations_replies list.
Entry(user, marked, ts) ==
    IF user # "none" /\ marked
        THEN [user |-> user, ts |-> ts, reactions |-> CheckReactions]
    ELSE IF user # "none" THEN [user |-> user, ts |-> ts]
    ELSE IF marked THEN [ts |-> ts, reactions |-> CheckReactions]
    ELSE [ts |-> ts]

\* Replies (entries after the parent) a thread rooted at parent_ts may hold:
\* marked and unmarked replies of two known users, a marked reply of a user
\* whose lookup fails, and a marked entry without an author.
ReplyKinds(parent_ts) ==
    { Entry(u, m, parent_ts + 300) : u \in {"U1", "U2"}, m \in BOOLEAN }
    \cup { Entry("U3", TRUE, parent_ts + 300),
           Entry("none", TRUE, parent_ts + 300) }

\* The parent entry, with or without a check mark of its own.
ParentKinds(parent_ts) == { Entry("U1", m, parent_ts) : m \in BOOLEAN }

\* What conversations_replies may answer: nothing, or the parent followed by
\* up to MaxReplies replies.
RawReplies(parent_ts) ==
    {<<>>} \cup
    UNION { { <<p>> \o rs : p \in ParentKinds(parent_ts),
                            rs \in [1..len -> ReplyKinds(parent_ts)] }
            : len \in 0..MaxReplies }

\* ------------------------------------------------------------- thread history
\* The resolution marker, read off the payload.
Marked(entry) ==
    /\ "reactions" \in DOMAIN entry
    /\ \E i \in DOMAIN entry.reactions :
         entry.reactions[i].name = "white_check_mark"

\* Positions of the replies of a raw reply list (position 1 is the parent).
ReplyIdx(raw) == 2..Len(raw)

WrittenBy(raw, a) ==
    { k \in ReplyIdx(raw) :
        "user" \in DOMAIN raw[k] /\ GetUserName(raw[k].user) = a }

MarkedBy(raw, a) == { k \in WrittenBy(raw, a) : Marked(raw[k]) }

FirstOf(S) == CHOOSE k \in S : \A j \in S : k <= j

\* The history variables after a successful fetch of get_thread_stats that
\* answered raw.
ObserveStats(raw) ==
    /\ attempts' = attempts + 1
    /\ failed' = failed
    /\ afterFail' = (afterFail \/ failed > 0)
    /\ gReplied' = gReplied + (IF ReplyIdx(raw) # {} THEN 1 ELSE 0)
    /\ gResolved' = gResolved +
          (IF \E k \in ReplyIdx(raw) : Marked(raw[k]) THEN 1 ELSE 0)
    /\ gMarkers' = gMarkers + Cardinality({k \in ReplyIdx(raw) : Marked(raw[k])})
    /\ gWrote' = [a \in Names |-> gWrote[a] + Cardinality(WrittenBy(raw, a))]
    /\ gLat' = IF ReplyIdx(raw) = {} THEN gLat
               ELSE Append(gLat,
                      IF "ts" \in DOMAIN raw[2]
                         THEN [known |-> TRUE, secs |-> raw[2].ts - ParentTs(idx)]
                         ELSE [known |-> FALSE, secs |-> 0])
    /\ UNCHANGED <<gMarked, gFirst>>

\* The history variables after a successful fetch of get_top_performers that
\* answered raw.
ObserveScores(raw) ==
    /\ attempts' = attempts + 1
    /\ failed' = failed
    /\ afterFail' = (afterFail \/ failed > 0)
    /\ gResolved' = gResolved +
          (IF \E k \in ReplyIdx(raw) : Marked(raw[k]) THEN 1 ELSE 0)
    /\ gMarkers' = gMarkers + Cardinality({k \in ReplyIdx(raw) : Marked(raw[k])})
    /\ gMarked' = [a \in Names |-> gMarked[a] + Cardinality(MarkedBy(raw, a))]
    /\ gFirst' = [a \in Names |->
                    IF gFirst[a] # 0 \/ MarkedBy(raw, a) = {} THEN gFirst[a]
                    ELSE idx * (MaxReplies + 2) + FirstOf(MarkedBy(raw, a))]
    /\ UNCHANGED <<gReplied, gWrote, gLat>>

\* The history variables after a fetch that raised.
ObserveFailure ==
    /\ attempts' = attempts + 1
    /\ failed' = failed + 1
    /\ UNCHANGED <<afterFail, gReplied, gResolved, gMarkers, gWrote, gMarked, gFirst,
                   gLat>>

\* ------------------------------------------------------------- get_thread_stats
\* get_thread_stats(messages, channel_id): lines 155-163.
CallStats ==
    /\ tpc = "idle"
    /\ \E len \in 0..MaxThreads :
         /\ nmsgs' = len
         /\ stats' = NewStats(len)
    /\ idx' = 1
    /\ tpc' = "stats"
    /\ UNCHANGED <<scores, top, attempts, failed, afterFail, gReplied, gResolved,
                   gMarkers, gWrote, gMarked, gFirst, gLat, ingestVars, cacheVars,
                   fiscalVars>>

\* A thread failure that ends the loop over messages (break, not continue).
StatsFetchAbort ==
    /\ tpc = "stats"
    /\ idx <= nmsgs
    /\ idx' = nmsgs + 1
    /\ ObserveFailure
    /\ UNCHANGED <<tpc, nmsgs, stats, scores, top, ingestVars, cacheVars, fiscalVars>>

\* conversations_replies raises: except: continue (lines 166-170).
StatsFetchFail ==
    /\ tpc = "stats"
    /\ idx <= nmsgs
    /\ idx' = idx + 1
    /\ ObserveFailure
    /\ UNCHANGED <<tpc, nmsgs, stats, scores, top, ingestVars, cacheVars, fiscalVars>>

\* One iteration of the loop over messages whose fetch answered one of raws:
\* lines 165-196.
StatsThread(raws) ==
    /\ tpc = "stats"
    /\ idx <= nmsgs
    /\ \E raw \in raws :
         /\ stats' = StatsIter(stats, ParentTs(idx), raw)
         /\ ObserveStats(raw)
    /\ idx' = idx + 1
    /\ UNCHANGED <<tpc, nmsgs, scores, top, ingestVars, cacheVars, fiscalVars>>

\* return stats (line 198).
StatsReturn ==
    /\ tpc = "stats"
    /\ idx > nmsgs
    /\ tpc' = "statsDone"
    /\ UNCHANGED <<nmsgs, idx, stats, scores, top, attempts, failed, afterFail, gReplied,
                   gResolved, gMarkers, gWrote, gMarked, gFirst, gLat, ingestVars,
                   cacheVars, fiscalVars>>

\* ------------------------------------------------------------- get_top_performers
\* get_top_performers(messages, channel_id): line 85.
CallScores ==
    /\ tpc = "idle"
    /\ \E len \in 0..MaxThreads : nmsgs' = len
    /\ scores' = <<>>
    /\ idx' = 1
    /\ tpc' = "scores"
    /\ UNCHANGED <<stats, top, attempts, failed, afterFail, gReplied, gResolved,
                   gMarkers, gWrote, gMarked, gFirst, gLat, ingestVars, cacheVars,
                   fiscalVars>>

\* conversations_replies raises SlackApiError: continue (lines 88-93).
ScoreFetchFail ==
    /\ tpc = "scores"
    /\ idx <= nmsgs
    /\ idx' = idx + 1
    /\ ObserveFailure
    /\ UNCHANGED <<tpc, nmsgs, stats, scores, top, ingestVars, cacheVars, fiscalVars>>

\* One iteration of the loop over messages whose fetch answered one of raws:
\* lines 87-105.
ScoreThread(raws) ==
    /\ tpc = "scores"
    /\ idx <= nmsgs
    /\ \E raw \in raws :
         /\ scores' = ScoreReplies(scores, Rest(raw))
         /\ ObserveScores(raw)
    /\ idx' = idx + 1
    /\ UNCHANGED <<tpc, nmsgs, stats, top, ingestVars, cacheVars, fiscalVars>>

\* return dict(sorted(...)) (line 108).
ScoresReturn ==
    /\ tpc = "scores"
    /\ idx > nmsgs
    /\ top' = SortDesc(scores)
    /\ tpc' = "scoresDone"
    /\ UNCHANGED <<nmsgs, idx, stats, scores, attempts, failed, afterFail, gReplied,
                   gResolved, gMarkers, gWrote, gMarked, gFirst, gLat, ingestVars,
                   cacheVars, fiscalVars>>

InitThreads == IngestIdle /\ ThreadsIdle /\ CacheIdle /\ FiscalIdle

NextThreads ==
    \/ CallStats
    \/ StatsThread(RawReplies(ParentTs(idx)))
    \/ StatsFetchFail
    \/ StatsReturn
    \/ CallScores
    \/ ScoreThread(RawReplies(ParentTs(idx)))
    \/ ScoreFetchFail
    \/ ScoresReturn

SpecThreads == InitThreads /\ [][NextThreads]_vars

\* ------------------------------------------------------------- get_thread_stats alone
\* Replies whose ts lies before, at and after the parent's (whole minutes),
\* a reply without a ts, a marked reply, and a marked entry without author.
TimedKinds(parent_ts) ==
    { Entry("U1", FALSE, parent_ts + dt) : dt \in {-60, 0, 60, 120} }
    \cup { [user |-> "U1"],
           Entry("U2", TRUE, parent_ts + 60),
           Entry("none", TRUE, parent_ts + 60) }

\* What conversations_replies may answer: nothing, or the parent followed by
\* up to MaxReplies such replies.
TimedReplies(parent_ts) ==
    {<<>>} \cup
    UNION { { <<Entry("U1", FALSE, parent_ts)>> \o rs :
                rs \in [1..len -> TimedKinds(parent_ts)] }
            : len \in 0..MaxReplies }

NextStats ==
    \/ CallStats
    \/ StatsThread(TimedReplies(ParentTs(idx)))
    \/ StatsFetchFail
    \/ StatsReturn

SpecStats == InitThreads /\ [][NextStats]_vars

\* ------------------------------------------------------------- thread claims
InStats == tpc \in {"stats", "statsDone"}
InScores == tpc \in {"scores", "scoresDone"}

\* C4: each fetched thread adds exactly 1 to threads_with_resolution when
\* at least one of its replies (the parent excluded) carries the marker and
\* 0 otherwise, so never more than 1 however many replies are marked.
C4_ResolvedOncePerThread ==
    InStats => /\ stats.threads_with_resolution = gResolved
               /\ stats.threads_with_resolution <= attempts - failed

\* C4 witness: a finished run in which a thread held several marked replies
\* and another fetched thread held none.
C4_Witness ==
    /\ tpc = "statsDone" /\ failed = 0 /\ nmsgs >= 2
    /\ gMarkers > gResolved /\ gResolved = 1
    /\ stats.threads_with_resolution = 1

\* C5: every reply with an author adds the author to responders and 1 to
\* the author's active_responders count, whether or not it or an earlier
\* reply of the thread is marked: each count equals the replies written.
C5_EveryReplyTallied ==
    InStats => /\ \A a \in Names : stats.active_responders[a] = gWrote[a]
               /\ stats.responders = {a \in Names : gWrote[a] > 0}

\* The mapping m (a sequence of name/score pairs) holds exactly the authors
\* with a marked reply, each once, with the number of their marked replies.
HoldsMarkedCounts(m) ==
    /\ \A i, j \in 1..Len(m) : m[i].name = m[j].name => i = j
    /\ {m[i].name : i \in 1..Len(m)} = {a \in Names : gMarked[a] > 0}
    /\ \A i \in 1..Len(m) : m[i].score = gMarked[m[i].name]

\* C6: the score of an author is the number of that author's marked replies
\* (parents excluded) over all fetched threads, several per thread included;
\* authors without a marked reply do not appear.
C6_ScoreIsMarkedCount ==
    /\ InScores => HoldsMarkedCounts(scores)
    /\ tpc = "scoresDone" => HoldsMarkedCounts(top)

\* C6 witness: a returned leaderboard where one thread held several marked
\* replies, an author scored twice and a marked entry had no author.
C6_Witness ==
    /\ tpc = "scoresDone"
    /\ gMarkers > gResolved
    /\ \E a \in Names : gMarked[a] >= 2
    /\ gMarkers > gMarked["Alice"] + gMarked["Bob"] + gMarked["Unknown"]

\* C7: the returned mapping is ordered by score, highest first, and authors
\* with equal scores keep the order in which they were first credited.
C7_SortedStable ==
    tpc = "scoresDone" =>
        /\ Len(top) = Len(scores)
        /\ \A p, q \in 1..Len(top) :
             p < q => /\ top[p].score >= top[q].score
                      /\ top[p].score = top[q].score
                            => gFirst[top[p].name] < gFirst[top[q].name]

\* C7 witness: three authors, two of them tied, returned in an order that
\* differs from the order of first credit.
C7_Witness ==
    /\ tpc = "scoresDone"
    /\ Len(top) = 3
    /\ top # scores
    /\ \E p, q \in 1..Len(top) : p # q /\ top[p].score = top[q].score

\* C8 as stated: a thread whose fetch failed leaves no trace in any field of
\* the result, which is what the other threads alone would have given.
C8_FailedThreadInvisible ==
    /\ tpc = "statsDone" =>
          /\ stats.total_threads = attempts - failed
          /\ stats.threads_with_replies = gReplied
          /\ stats.threads_with_resolution = gResolved
    /\ tpc = "scoresDone" => HoldsMarkedCounts(top)

\* C8 (amended): a failed reply fetch does not abort either operation: the
\* step changes no tally and moves on to the next thread, every input thread
\* is fetched, and the fetched threads are tallied as if the failed ones
\* were absent; only total_threads, set to the number of input messages,
\* counts the failed thread.
C8_FailedThreadSkipped ==
    /\ [][failed' = failed + 1 =>
            /\ stats' = stats /\ scores' = scores /\ top' = top
            /\ tpc' = tpc /\ idx' = idx + 1]_vars
    /\ [](tpc \in {"statsDone", "scoresDone"} => attempts = nmsgs)
    /\ [](InStats => /\ stats.total_threads = nmsgs
                     /\ stats.threads_with_replies = gReplied
                     /\ stats.threads_with_resolution = gResolved)
    /\ [](InScores => HoldsMarkedCounts(scores))

\* C8 witness: a finished get_thread_stats run in which a fetch failed and a
\* later thread was fetched and counted.
C8_Witness ==
    /\ tpc = "statsDone"
    /\ failed >= 1 /\ afterFail
    /\ stats.threads_with_replies >= 1
    /\ stats.total_threads = nmsgs

\* ------------------------------------------------------------- result cache
\* @st.cache_data(ttl=300) on load_all_messages and on get_thread_stats.
TTL_MESSAGES == 300
TTL_STATS == 300

\* st.cache_data with a ttl: an entry answers a lookup at time t while less
\* than ttl has passed since it was stored; a lookup past that misses and
\* the function body runs again (lazy eviction).
Valid(entry, ttl, t) == entry.present /\ t - entry.at < ttl

\* A cache that keeps no entry for a producer run that met an API error.
StoredUnlessError(value, t, err) ==
    IF err THEN NoEntry
    ELSE [present |-> TRUE, value |-> value, at |-> t, err |-> err]

\* The entry stored after the producer ran at time t.
Stored(value, t, err) ==
    [present |-> TRUE, value |-> value, at |-> t, err |-> err]

\* load_all_messages takes no arguments: one entry.
LoadHit(c, t) == Valid(c.msgs, TTL_MESSAGES, t)

\* get_thread_stats without its decorator: every call runs the body.
StatsNeverHit(c, args, t) == FALSE

\* get_thread_stats(messages, channel_id): one entry per argument value.
StatsHit(c, args, t) == Valid(c.stats[args], TTL_STATS, t)

\* A refresh handler that reruns without clearing.
NotCleared(c) == c

\* st.cache_data.clear()
Cleared(c) == EmptyCache

\* len(messages) of snapshot v.
Size(v) == v

\* One run of the page script from line 301 on, started by trigger, with
\* the cache c0 and the leaderboard history top0 it starts from:
\* load_all_messages(), the time-range filter, then, for a non-empty
\* selection, get_thread_stats(...) and SlackMonitor().get_top_performers(...).
Script(trigger, c0, top0) ==
    \E ok \in BOOLEAN, sel \in {"all", "none"} :
      LET hitL == LoadHit(c0, now)
          \* get_ai_acq_messages: the snapshot, or [] after a SlackApiError
          fetched == IF ok THEN upstream ELSE 0
          all == IF hitL THEN c0.msgs.value ELSE fetched
          c1 == IF hitL THEN c0
                ELSE [c0 EXCEPT !.msgs = Stored(fetched, now, ~ok)]
          filtered == IF sel = "all" THEN all ELSE 0
          called == filtered # 0
          hitS == called /\ StatsHit(c1, filtered, now)
          statsValue == IF ~called THEN 0
                        ELSE IF hitS THEN c1.stats[filtered].value
                        ELSE upstream
          c2 == IF called /\ ~hitS
                   THEN [c1 EXCEPT !.stats[filtered] =
                                       Stored(upstream, now, FALSE)]
                   ELSE c1
      IN  /\ cache' = c2
          /\ lastTop' = IF called THEN [top0 EXCEPT ![filtered] = now]
                        ELSE top0
          /\ lastRun' =
               [trigger |-> trigger, at |-> now, all |-> all,
                filtered |-> filtered,
                loadInvoked |-> ~hitL,
                fetchFailed |-> ~hitL /\ ~ok,
                statsCalled |-> called,
                statsInvoked |-> called /\ ~hitS,
                statsValue |-> statsValue,
                topCalled |-> called,
                apiHistory |-> IF hitL THEN 0 ELSE 1,
                apiReplies |-> (IF called /\ ~hitS THEN Size(filtered) ELSE 0)
                               + (IF called THEN Size(filtered) ELSE 0)]
          /\ runs' = runs + 1

\* Any interaction reruns the script.
Rerun ==
    /\ runs < MaxRuns
    /\ Script("rerun", cache, lastTop)
    /\ UNCHANGED <<now, upstream, ingestVars, threadVars, fiscalVars>>

\* The refresh button: st.cache_data.clear(); st.rerun() (lines 297-299).
RefreshClicked ==
    /\ runs < MaxRuns
    /\ Script("refresh", Cleared(cache), [k \in StatsArgs |-> -1])
    /\ UNCHANGED <<now, upstream, ingestVars, threadVars, fiscalVars>>

\* Time passes.
Tick ==
    /\ now + TickSeconds <= MaxClock
    /\ now' = now + TickSeconds
    /\ UNCHANGED <<upstream, cache, lastTop, lastRun, runs, ingestVars,
                   threadVars, fiscalVars>>

\* The channel receives a message.
UpstreamChange ==
    /\ upstream < MaxVersion
    /\ upstream' = upstream + 1
    /\ UNCHANGED <<now, cache, lastTop, lastRun, runs, ingestVars, threadVars, fiscalVars>>

InitCache == IngestIdle /\ ThreadsIdle /\ CacheIdle /\ FiscalIdle

NextCache == Rerun \/ RefreshClicked \/ Tick \/ UpstreamChange

SpecCache == InitCache /\ [][NextCache]_vars

\* ------------------------------------------------------------- fiscal calendar
\* Calendar years the dates are drawn from: around a century boundary, where
\* the two-digit label wraps, and the years of the docstring examples.
Years == {1999, 2000, 2024, 2025}

LeapYear(y) == (y % 4 = 0 /\ y % 100 # 0) \/ y % 400 = 0

LastDay(m, y) ==
    IF m = 2 THEN (IF LeapYear(y) THEN 29 ELSE 28)
    ELSE IF m \in {4, 6, 9, 11} THEN 30
    ELSE 31

\* datetime values: the first, a middle and the last day of every month.
Dates ==
    UNION { { [year |-> y, month |-> m, day |-> d] : d \in {1, 15, LastDay(m, y)} }
            : y \in Years, m \in 1..12 }

\* f"FY{yy} Q{quarter}": the text as its pieces, the numbers unformatted.
Label(yy, quarter) == <<"FY", yy, " Q", quarter>>

\* get_fiscal_quarter with January counted into the coming fiscal year.
FiscalQuarterJanuaryAhead(d) ==
    LET month == d.month
        year == d.year
    IN  IF month \in {2, 3, 4}
           THEN <<year + 1, 1, Label((year + 1) % 100, 1)>>
        ELSE IF month \in {5, 6, 7}
           THEN <<year + 1, 2, Label((year + 1) % 100, 2)>>
        ELSE IF month \in {8, 9, 10}
           THEN <<year + 1, 3, Label((year + 1) % 100, 3)>>
        ELSE <<year + 1, 4, Label((year + 1) % 100, 4)>>

\* get_fiscal_quarter(date): lines 97-106.
get_fiscal_quarter(d) ==
    LET month == d.month
        year == d.year
    IN  IF month \in {2, 3, 4}
           THEN <<year + 1, 1, Label((year + 1) % 100, 1)>>
        ELSE IF month \in {5, 6, 7}
           THEN <<year + 1, 2, Label((year + 1) % 100, 2)>>
        ELSE IF month \in {8, 9, 10}
           THEN <<year + 1, 3, Label((year + 1) % 100, 3)>>
        ELSE LET fyear == IF month \in {11, 12} THEN year + 1 ELSE year
             IN  <<fyear, 4, Label(fyear % 100, 4)>>

\* The wraparound of lines 123-126 that stays in the same fiscal year.
PrevQuarterSameYear(fyear, quarter) ==
    LET q1 == quarter - 1
    IN  IF q1 <= 0 THEN <<fyear, 4>> ELSE <<fyear, q1>>

\* q -= 1; if q <= 0: q = 4; fy -= 1  (lines 123-126): the next (fy, q).
PrevQuarter(fyear, quarter) ==
    LET q1 == quarter - 1
    IN  IF q1 <= 0 THEN <<fyear - 1, 4>> ELSE <<fyear, q1>>

\* A call get_fiscal_quarter(date).
CallFiscalQuarter ==
    /\ fpc = "idle"
    /\ \E d \in Dates :
         /\ date' = d
         /\ fiscal' = get_fiscal_quarter(d)
    /\ fpc' = "quarter"
    /\ UNCHANGED <<nq, done, fy, qtr, quarters, ingestVars, threadVars, cacheVars>>

\* get_trailing_quarters(n): lines 115-120, now being any date.
CallTrailing ==
    /\ fpc = "idle"
    /\ \E d \in Dates, k \in 0..MaxN :
         LET current == get_fiscal_quarter(d)
         IN  /\ date' = d
             /\ nq' = k
             /\ fy' = current[1]
             /\ qtr' = current[2]
    /\ quarters' = <<>>
    /\ done' = 0
    /\ fpc' = "loop"
    /\ UNCHANGED <<fiscal, ingestVars, threadVars, cacheVars>>

\* One iteration of for _ in range(n): lines 121-126.
TrailingIter ==
    /\ fpc = "loop"
    /\ done < nq
    /\ quarters' = Append(quarters, <<fy, qtr>>)
    /\ fy' = PrevQuarter(fy, qtr)[1]
    /\ qtr' = PrevQuarter(fy, qtr)[2]
    /\ done' = done + 1
    /\ UNCHANGED <<fpc, date, fiscal, nq, ingestVars, threadVars, cacheVars>>

\* return quarters (line 127).
TrailingReturn ==
    /\ fpc = "loop"
    /\ done >= nq
    /\ fpc' = "returned"
    /\ UNCHANGED <<date, fiscal, nq, done, fy, qtr, quarters, ingestVars,
                   threadVars, cacheVars>>

InitFiscal == IngestIdle /\ ThreadsIdle /\ CacheIdle /\ FiscalIdle

NextFiscal == CallFiscalQuarter \/ CallTrailing \/ TrailingIter \/ TrailingReturn

SpecFiscal == InitFiscal /\ [][NextFiscal]_vars

\* ------------------------------------------------------------- whole program
\* Ingestion, the thread operations and the cached page script share no
\* state, so each is explored on its own (SpecIngest, SpecThreads,
\* SpecStats, SpecCache, SpecFiscal); Spec is their composition.
Init == InitIngest

Next == NextIngest \/ NextThreads \/ NextStats \/ NextCache \/ NextFiscal

Spec == Init /\ [][Next]_vars

\* ------------------------------------------------------------- cache claims
\* The step is a run of the page script.
Ran == runs' = runs + 1

\* The entry the coming get_thread_stats call will look up.
StatsEntry == cache.stats[lastRun'.filtered]

\* C9: for load_all_messages and get_thread_stats, a call with the same
\* arguments less than ttl after the entry was stored returns the stored
\* value and does not run the producer; a call once ttl has passed runs the
\* producer and stores its result with the time of the call; after clear()
\* the next call runs the producer whatever the elapsed time.
C9_CacheContract ==
    /\ [][(Ran /\ lastRun'.trigger = "rerun" /\ cache.msgs.present
               /\ now - cache.msgs.at < 300)
            => /\ ~lastRun'.loadInvoked
               /\ lastRun'.all = cache.msgs.value
               /\ cache'.msgs = cache.msgs]_vars
    /\ [][(Ran /\ cache.msgs.present /\ now - cache.msgs.at >= 300)
            => /\ lastRun'.loadInvoked
               /\ cache'.msgs.present /\ cache'.msgs.at = now]_vars
    /\ [][(Ran /\ lastRun'.trigger = "refresh")
            => /\ lastRun'.loadInvoked
               /\ cache'.msgs.present /\ cache'.msgs.at = now
               /\ lastRun'.statsCalled => lastRun'.statsInvoked]_vars
    /\ [][(Ran /\ lastRun'.statsCalled /\ lastRun'.trigger = "rerun"
               /\ StatsEntry.present /\ now - StatsEntry.at < 300)
            => /\ ~lastRun'.statsInvoked
               /\ lastRun'.statsValue = StatsEntry.value
               /\ cache'.stats = cache.stats]_vars
    /\ [][(Ran /\ lastRun'.statsCalled
               /\ StatsEntry.present /\ now - StatsEntry.at >= 300)
            => /\ lastRun'.statsInvoked
               /\ cache'.stats[lastRun'.filtered].at = now]_vars

\* C9 witness: a rerun, some time after the entries were stored and after
\* the channel changed, that was answered from both entries.
C9_Witness ==
    /\ lastRun.trigger = "rerun"
    /\ lastRun.statsCalled
    /\ ~lastRun.loadInvoked /\ ~lastRun.statsInvoked
    /\ lastRun.at > cache.msgs.at
    /\ lastRun.all # upstream
    /\ runs = MaxRuns

\* The run repeats all three queries inside the window: the messages entry
\* is valid, get_thread_stats is called with arguments whose entry is valid,
\* and get_top_performers ran with the same arguments less than 300 s ago,
\* with no clear() since.
RepeatsAll ==
    /\ Ran /\ lastRun'.trigger = "rerun"
    /\ cache.msgs.present /\ now - cache.msgs.at < 300
    /\ lastRun'.statsCalled
    /\ StatsEntry.present /\ now - StatsEntry.at < 300
    /\ lastTop[lastRun'.filtered] >= 0
    /\ now - lastTop[lastRun'.filtered] < 300

\* C10 as stated: repeating ingestion, the thread resolver and the
\* leaderboard scorer inside the window issues no upstream API call.
C10_NoUpstreamCalls ==
    [][RepeatsAll => (lastRun'.apiHistory = 0 /\ lastRun'.apiReplies = 0)]_vars

\* C10 (amended): the cache covers ingestion and the thread resolver only:
\* repeated inside the window they issue no upstream call, while the
\* leaderboard scorer fetches the replies of every thread again on every
\* call.
C10_CachedExceptLeaderboard ==
    /\ [][RepeatsAll => /\ lastRun'.apiHistory = 0
                        /\ lastRun'.apiReplies = Size(lastRun'.filtered)]_vars
    /\ [][(Ran /\ lastRun'.trigger = "rerun" /\ cache.msgs.present
               /\ now - cache.msgs.at < 300)
            => lastRun'.apiHistory = 0]_vars
    /\ [][(Ran /\ lastRun'.topCalled)
            => lastRun'.apiReplies >= Size(lastRun'.filtered)]_vars

\* C10 witness: a rerun answered from both entries whose leaderboard
\* nevertheless fetched every thread, the leaderboard having run before.
C10_Witness ==
    /\ lastRun.trigger = "rerun"
    /\ ~lastRun.loadInvoked
    /\ lastRun.statsCalled /\ ~lastRun.statsInvoked
    /\ lastRun.topCalled
    /\ lastRun.apiHistory = 0
    /\ lastRun.apiReplies = Size(lastRun.filtered)
    /\ lastRun.filtered = MaxVersion
    /\ runs >= 2

\* The messages entry holds the outcome of a fetch that met an API error.
HoldsError == cache.msgs.present /\ cache.msgs.err

\* C15: the outcome of an ingestion that ended in an API error (the empty
\* list) is stored like any result; while less than 300 s have passed since
\* and no clear() happened, every load_all_messages call returns that stored
\* outcome without a conversations_history call, whatever the channel holds
\* by then; a new fetch happens when, and only when, the ttl has passed or
\* the cache was cleared.
C15_ErrorOutcomeCached ==
    /\ [][(Ran /\ lastRun'.fetchFailed)
            => /\ lastRun'.all = 0
               /\ cache'.msgs = [present |-> TRUE, value |-> 0, at |-> now,
                                 err |-> TRUE]]_vars
    /\ [][(Ran /\ HoldsError /\ lastRun'.trigger = "rerun"
               /\ now - cache.msgs.at < 300)
            => /\ ~lastRun'.loadInvoked
               /\ lastRun'.apiHistory = 0
               /\ lastRun'.all = 0
               /\ cache'.msgs = cache.msgs]_vars
    /\ [][(Ran /\ HoldsError)
            => (lastRun'.loadInvoked
                  <=> (lastRun'.trigger = "refresh"
                         \/ now - cache.msgs.at >= 300))]_vars
    /\ [][(Ran /\ HoldsError /\ lastRun'.loadInvoked)
            => lastRun'.apiHistory = 1]_vars

\* C15 witness: a rerun, later than the failed fetch but inside its ttl and
\* with messages in the channel by then, that was answered with the stored
\* empty outcome and made no history call.
C15_Witness ==
    /\ lastRun.trigger = "rerun"
    /\ ~lastRun.loadInvoked
    /\ cache.msgs.present /\ cache.msgs.err
    /\ lastRun.at > cache.msgs.at
    /\ lastRun.at - cache.msgs.at < 300
    /\ upstream > 0
    /\ lastRun.all = 0
    /\ lastRun.apiHistory = 0

\* ------------------------------------------------------------- latency claims
\* The known latencies of lat that are at least least seconds, in minutes,
\* in order.
RECURSIVE Minutes(_, _)
Minutes(lat, least) ==
    IF lat = <<>> THEN <<>>
    ELSE (IF Head(lat).known /\ Head(lat).secs >= least
             THEN <<Head(lat).secs \div 60>> ELSE <<>>)
         \o Minutes(Tail(lat), least)

\* C13 as stated: a thread with a reply adds an entry to response_times
\* exactly when its first-response latency is non-negative.
C13_NonNegativeRecorded ==
    InStats => /\ stats.response_times = Minutes(gLat, 0)
               /\ stats.threads_with_replies = Len(gLat)

\* C13 (amended): a thread with a reply adds one entry, its latency in
\* minutes, to response_times exactly when the first reply carries a ts that
\* lies strictly after the parent's; a zero or negative latency, and a first
\* reply without a ts (its ts defaults to the parent's), adds nothing and no
\* zero is ever recorded.  The thread is counted in threads_with_replies
\* either way, and a thread adds at most one entry.
C13_PositiveRecorded ==
    InStats => /\ stats.response_times = Minutes(gLat, 1)
               /\ \A i \in 1..Len(stats.response_times) :
                     stats.response_times[i] > 0
               /\ stats.threads_with_replies = Len(gLat)
               /\ Len(gLat) = gReplied
               /\ Len(stats.response_times) <= attempts - failed

\* C13 witness: a finished run over two threads with replies, one answered
\* after a positive latency and one at latency zero, with one entry recorded.
C13_Witness ==
    /\ tpc = "statsDone"
    /\ Len(gLat) = 2
    /\ \E i, j \in 1..2 : /\ gLat[i].known /\ gLat[i].secs = 0
                          /\ gLat[j].known /\ gLat[j].secs > 0
    /\ Len(stats.response_times) = 1
    /\ stats.threads_with_replies = 2

\* C14: after any prefix of the threads, whatever fetches succeeded or
\* failed: threads_with_resolution <= threads_with_replies <= total_threads,
\* len(response_times) <= threads_with_replies, responders is the key set of
\* active_responders, and a fetched thread with zero replies changes no
\* field of the result.
C14_StatsInvariants ==
    /\ [](InStats =>
            /\ stats.threads_with_resolution <= stats.threads_with_replies
            /\ stats.threads_with_replies <= stats.total_threads
            /\ Len(stats.response_times) <= stats.threads_with_replies
            /\ stats.responders = {a \in Names : stats.active_responders[a] > 0}
            /\ stats.total_threads = nmsgs)
    /\ [][(attempts' = attempts + 1 /\ failed' = failed /\ gReplied' = gReplied)
            => stats' = stats]_vars

\* C14 witness: a finished run in which one fetched thread had no reply and
\* another had an unresolved reply whose latency was dropped, so that every
\* inequality is strict.
C14_Witness ==
    /\ tpc = "statsDone"
    /\ attempts - failed > gReplied
    /\ stats.threads_with_resolution < stats.threads_with_replies
    /\ stats.threads_with_replies < stats.total_threads
    /\ Len(stats.response_times) < stats.threads_with_replies
    /\ stats.responders # {}

\* ------------------------------------------------------------- fiscal claims
\* The quarter number the mapping table gives a month.
QuarterOf(m) ==
    IF m \in 2..4 THEN 1 ELSE IF m \in 5..7 THEN 2 ELSE IF m \in 8..10 THEN 3 ELSE 4

\* The fiscal year of a month of calendar year y.
FiscalYearOf(m, y) == IF m = 1 THEN y ELSE y + 1

\* The (fiscal_year, quarter) part of a get_fiscal_quarter result.
Pair(r) == <<r[1], r[2]>>

\* C11: get_fiscal_quarter answers every date, from its month and year
\* alone: months 2-4 give Q1, 5-7 Q2, 8-10 Q3 and 11, 12, 1 Q4; the fiscal
\* year is the calendar year + 1 for months 2..12 and the calendar year for
\* January; the label is FY{fiscal_year mod 100} Q{quarter}.  So November
\* and December of Y and January of Y+1 share one (fiscal_year, quarter),
\* January and February of one calendar year lie in different fiscal years,
\* and Aug 2024 is FY25 Q3, Jan 2025 FY25 Q4, Feb 2025 FY26 Q1.
C11_FiscalQuarter ==
    fpc = "quarter" =>
      LET m == date.month
          y == date.year
      IN  /\ fiscal = <<FiscalYearOf(m, y), QuarterOf(m),
                        <<"FY", FiscalYearOf(m, y) % 100, " Q", QuarterOf(m)>>>>
          /\ \A d \in {1, 15, LastDay(m, y)} :
                get_fiscal_quarter([date EXCEPT !.day = d]) = fiscal
          /\ m = 1 =>
                /\ \A mm \in {11, 12} :
                      Pair(get_fiscal_quarter([year |-> y - 1, month |-> mm,
                                               day |-> 1])) = Pair(fiscal)
                /\ get_fiscal_quarter([year |-> y, month |-> 2,
                                       day |-> 1])[1] # fiscal[1]
          /\ (y = 2024 /\ m = 8) => fiscal = <<2025, 3, <<"FY", 25, " Q", 3>>>>
          /\ (y = 2025 /\ m = 1) => fiscal = <<2025, 4, <<"FY", 25, " Q", 4>>>>
          /\ (y = 2025 /\ m = 2) => fiscal = <<2026, 1, <<"FY", 26, " Q", 1>>>>

\* C11 witness: the call for January 31 2025 answered FY25 Q4.
C11_Witness ==
    /\ fpc = "quarter"
    /\ date = [year |-> 2025, month |-> 1, day |-> 31]
    /\ fiscal = <<2025, 4, <<"FY", 25, " Q", 4>>>>

\* Position of a (fiscal_year, quarter) pair on the line of fiscal quarters.
Ord(pair) == 4 * pair[1] + pair[2]

\* C12: for every n and every reference date, get_trailing_quarters returns
\* exactly n pairwise distinct (fiscal_year, quarter) pairs, the first the
\* quarter of the reference date, each later one the quarter just before
\* its predecessor (Q1 is followed by Q4 of the fiscal year before), every
\* quarter number in 1..4.
C12_TrailingQuarters ==
    fpc \in {"loop", "returned"} =>
      /\ Len(quarters) = done /\ done <= nq
      /\ fpc = "returned" => Len(quarters) = nq
      /\ \A k \in 1..Len(quarters) : quarters[k][2] \in 1..4
      /\ Len(quarters) >= 1 =>
            quarters[1] = <<FiscalYearOf(date.month, date.year),
                            QuarterOf(date.month)>>
      /\ \A k \in 2..Len(quarters) :
            /\ Ord(quarters[k]) = Ord(quarters[k - 1]) - 1
            /\ quarters[k] = IF quarters[k - 1][2] = 1
                                THEN <<quarters[k - 1][1] - 1, 4>>
                                ELSE <<quarters[k - 1][1], quarters[k - 1][2] - 1>>
      /\ \A j, k \in 1..Len(quarters) : quarters[j] = quarters[k] => j = k

\* C12 witness: a returned list of MaxN quarters that starts in a January
\* and crosses a fiscal-year boundary.
C12_Witness ==
    /\ fpc = "returned"
    /\ nq = MaxN /\ Len(quarters) = MaxN
    /\ date.month = 1
    /\ quarters[1][1] = date.year
    /\ \E k \in 2..Len(quarters) : quarters[k][1] = date.year - 1
=============================================================================
